---- MODULE Spec2Model ----
(***************************************************************************)
(* State-machine model of the reminder facility of strawberry-reminder:   *)
(* the ReminderItem table (reminder/database.py), the polling loop        *)
(* Reminder.reminder with the delivery attempt Reminder._remind, and the  *)
(* command handlers that create, reschedule, edit, delete and show items   *)
(* (reminder/module.py, reminder/objects.py).                              *)
(*                                                                         *)
(* The handlers are coroutines of one asyncio event loop: code between two *)
(* awaits runs atomically, and other coroutines run at every await.  Each  *)
(* action below is one such atomic stretch.  All handlers share one        *)
(* SQLAlchemy session, whose identity map hands every holder of a row the  *)
(* same object, so a handler holds an id and reads the row from db.        *)
(***************************************************************************)
EXTENDS Integers, Sequences, FiniteSets, TLC

\* ---------------------------------------------------------------------------
\* Program constants
\* ---------------------------------------------------------------------------

\* @tasks.loop(seconds=30)
LoopSeconds == 30

\* max_remind_time = datetime.now() + timedelta(seconds=30)
HorizonSeconds == 30

\* ---------------------------------------------------------------------------
\* Bounds of the model
\* ---------------------------------------------------------------------------

\* Ids the table hands out: 1..MaxItems.
MaxItems == 2

\* The clock advances in steps of ClockStep seconds, up to MaxTime.
ClockStep == 15

MaxTime == 30

\* Confirmation dialogs (ConfirmView) open at the same time.
MaxPending == 1

\* Delivery calls counted per item.
MaxCalls == 2

\* Confirmed reschedules counted per item.
MaxReschedules == 1

\* Commands issued in one run.
MaxCommands == 2

\* Times the cog is loaded in one run.
MaxLoads == 2

\* ---------------------------------------------------------------------------
\* Value sets
\* ---------------------------------------------------------------------------

Users == {1, 2}

\* The users who create items (the others only act on stored items).
Authors == {1}

\* guild_id 0: the author has no guild (a direct-message context).
Guilds == {0, 1}

Messages == {"a", "b"}

\* The text typed when an item is created (an edit may type any message).
Texts == {"a"}

\* Dates a user may type: one inside the clock's range, one beyond it.
Dates == {ClockStep, MaxTime + ClockStep}

Ids == 1..MaxItems

\* An omitted (None) numeric argument of get_all.
None == -1

\* An omitted status argument of get_all.
AnyStatus == "ANY"

\* class ReminderStatus
ReminderStatus == {"WAITING", "REMINDED", "FAILED"}

VARIABLES
    now,        \* datetime.now(), in seconds
    db,         \* the table reminder_reminder_reminderitem: idx -> row
    nextIdx,    \* the next autoincrement value of idx
    botReady,   \* bot.wait_until_ready() has been released
    loopState,  \* the tasks.loop: before_loop, sleeping, running, retrying,
                \* failed, cancelled
    nextIter,   \* the time the loop sleeps until
    items,      \* the rest of the list the running tick iterates over
    phase,      \* where _remind(Head(items)) is: resolve or send
    onTime,     \* history: the loop has ticked every LoopSeconds since time 0
    pending,    \* open ConfirmView dialogs
    calls,      \* history: delivery calls (reminded_user.send) per idx
    resched,    \* history: confirmed reschedules and edits per idx
    cmds,       \* history: commands issued so far
    loads,      \* history: times the cog has been loaded
    last        \* the step just taken and how it ended

vars == <<now, db, nextIdx, botReady, loopState, nextIter, items,
          phase, onTime, pending, calls, resched, cmds, loads, last>>

schedVars == <<loopState, nextIter, items, phase, onTime>>

\* ---------------------------------------------------------------------------
\* The table
\* ---------------------------------------------------------------------------

\* The link to the message a reminder was created from (jump_url).
Permalink == "url"

\* ReminderItem(...) as built by ReminderItem.add
ReminderItem(guild, author, recipient, message, origin, remind) ==
    [guild_id |-> guild, author_id |-> author, recipient_id |-> recipient,
     permalink |-> Permalink, message |-> message, origin_date |-> origin,
     remind_date |-> remind, status |-> "WAITING"]

\* The check of ReminderItem.add: raise ValueError if remind_date < origin_date.
AddRaises(remind, origin) == remind < origin

\* A query that ignores the status argument.
Matching_AnyStatus(d, guild, idx, recipient, status, minOrigin, maxOrigin, minRemind, maxRemind) ==
    {i \in DOMAIN d :
        /\ (guild # None => d[i].guild_id = guild)
        /\ (idx # None => i = idx)
        /\ (recipient # None => d[i].recipient_id = recipient)
        /\ (minOrigin # None => d[i].origin_date > minOrigin)
        /\ (maxOrigin # None => d[i].origin_date < maxOrigin)
        /\ (minRemind # None => d[i].remind_date > minRemind)
        /\ (maxRemind # None => d[i].remind_date < maxRemind)}

\* The ids of the rows a get_all query matches; an omitted filter is None
\* (AnyStatus for status).
Matching(d, guild, idx, recipient, status, minOrigin, maxOrigin, minRemind, maxRemind) ==
    {i \in DOMAIN d :
        /\ (guild # None => d[i].guild_id = guild)
        /\ (idx # None => i = idx)
        /\ (recipient # None => d[i].recipient_id = recipient)
        /\ (status # AnyStatus => d[i].status = status)
        /\ (minOrigin # None => d[i].origin_date > minOrigin)
        /\ (maxOrigin # None => d[i].origin_date < maxOrigin)
        /\ (minRemind # None => d[i].remind_date > minRemind)
        /\ (maxRemind # None => d[i].remind_date < maxRemind)}

\* order_by(remind_date.asc())
OrderedDesc_Asc(d, S) ==
    {s \in [1..Cardinality(S) -> S] :
        /\ \A i, j \in 1..Cardinality(S) : i # j => s[i] # s[j]
        /\ \A i, j \in 1..Cardinality(S) :
              i < j => d[s[i]].remind_date <= d[s[j]].remind_date}

\* order_by(remind_date.desc()): every listing of S by remind_date descending
\* (rows with equal remind_date come in an order the database chooses).
OrderedDesc(d, S) ==
    {s \in [1..Cardinality(S) -> S] :
        /\ \A i, j \in 1..Cardinality(S) : i # j => s[i] # s[j]
        /\ \A i, j \in 1..Cardinality(S) :
              i < j => d[s[i]].remind_date >= d[s[j]].remind_date}

\* ReminderItem.get_all: the lists the query may return.
GetAll(d, guild, idx, recipient, status, minOrigin, maxOrigin, minRemind, maxRemind) ==
    OrderedDesc(d, Matching(d, guild, idx, recipient, status,
                            minOrigin, maxOrigin, minRemind, maxRemind))

\* get_all(idx=idx) as the commands use it: the matching ids.
GetById(d, idx) ==
    Matching(d, None, idx, None, AnyStatus, None, None, None, None)

\* The step just taken.
Ev(op, idx, user, result, pre) ==
    [op |-> op, idx |-> idx, user |-> user, result |-> result, pre |-> pre]

\* The stored status of idx, or NONE when no row is stored.
StatusOf(d, idx) == IF idx \in DOMAIN d THEN d[idx].status ELSE "NONE"

\* ---------------------------------------------------------------------------
\* Initial state: Reminder.__init__ has started the loop; the table is empty.
\* ---------------------------------------------------------------------------

Init ==
    /\ now = 0
    /\ db = <<>>
    /\ nextIdx = 1
    /\ botReady = FALSE
    /\ loopState = "before_loop"
    /\ nextIter = 0
    /\ items = <<>>
    /\ phase = "idle"
    /\ onTime = TRUE
    /\ pending = {}
    /\ calls = [i \in Ids |-> 0]
    /\ resched = [i \in Ids |-> 0]
    /\ cmds = 0
    /\ loads = 1
    /\ last = Ev("init", 0, 0, "ok", "NONE")

\* ---------------------------------------------------------------------------
\* The clock
\* ---------------------------------------------------------------------------

\* Time passes, up to limit.  A sleeping loop wakes exactly when its sleep
\* ends: the clock does not step over nextIter, and does not move while a tick
\* is due or is being retried (the loop's backoff is shorter than a step of
\* the clock).
AdvanceTimeTo(limit) ==
    /\ now < limit
    /\ ~(loopState = "sleeping" /\ now >= nextIter)
    /\ loopState # "retrying"
    /\ now' = IF loopState = "sleeping" /\ nextIter < now + ClockStep
              THEN nextIter
              ELSE now + ClockStep
    /\ now' <= limit
    /\ last' = Ev("time", 0, 0, "ok", "NONE")
    /\ UNCHANGED <<db, nextIdx, botReady, schedVars, pending, calls, resched>>
    /\ UNCHANGED <<cmds, loads>>

AdvanceTime == AdvanceTimeTo(MaxTime)

\* ---------------------------------------------------------------------------
\* The polling loop (Reminder.reminder, a discord.ext.tasks loop)
\* ---------------------------------------------------------------------------

\* The host signals readiness: bot.wait_until_ready() returns from now on.
BotReady ==
    /\ ~botReady
    /\ botReady' = TRUE
    /\ last' = Ev("ready", 0, 0, "ok", "NONE")
    /\ UNCHANGED <<now, db, nextIdx, schedVars, pending, calls, resched>>
    /\ UNCHANGED <<cmds, loads>>

\* before_reminder without the wait for readiness.
before_reminder_NoWait ==
    /\ loopState = "before_loop"
    /\ loopState' = "sleeping"
    /\ nextIter' = now
    /\ onTime' = (onTime /\ now = 0)
    /\ last' = Ev("before_loop", 0, 0, "ok", "NONE")
    /\ UNCHANGED <<now, db, nextIdx, botReady, items, phase,
                   pending, calls, resched, cmds, loads>>

\* before_reminder: the loop waits for readiness, then its first iteration is
\* due at once.
before_reminder ==
    /\ loopState = "before_loop"
    /\ botReady
    /\ loopState' = "sleeping"
    /\ nextIter' = now
    /\ onTime' = (onTime /\ now = 0)
    /\ last' = Ev("before_loop", 0, 0, "ok", "NONE")
    /\ UNCHANGED <<now, db, nextIdx, botReady, items, phase,
                   pending, calls, resched>>
    /\ UNCHANGED <<cmds, loads>>

\* cog_unload that leaves the loop running.
cog_unload_NoCancel ==
    /\ loopState # "cancelled"
    /\ last' = Ev("cog_unload", 0, 0, "ok", "NONE")
    /\ UNCHANGED <<now, db, nextIdx, botReady, schedVars, pending, calls,
                   resched, cmds, loads>>

\* cog_unload: reminder.cancel() cancels the loop's task, also inside a tick
\* (the task is cancelled at the await it is suspended in).
cog_unload ==
    /\ loopState # "cancelled"
    /\ loopState' = "cancelled"
    /\ items' = <<>>
    /\ phase' = "idle"
    /\ nextIter' = 0
    /\ onTime' = FALSE
    /\ last' = Ev("cog_unload", 0, 0,
                  IF loopState = "running" THEN "mid_tick" ELSE "ok", "NONE")
    /\ UNCHANGED <<now, db, nextIdx, botReady, pending, calls, resched>>
    /\ UNCHANGED <<cmds, loads>>

\* setup / Reminder.__init__ after an unload: a new loop is started.
cog_load ==
    /\ loopState = "cancelled"
    /\ loads < MaxLoads
    /\ loads' = loads + 1
    /\ loopState' = "before_loop"
    /\ last' = Ev("cog_load", 0, 0, "ok", "NONE")
    /\ UNCHANGED <<now, db, nextIdx, botReady, nextIter, items,
                   phase, onTime, pending, calls, resched>>
    /\ UNCHANGED cmds

\* The clock as the running tick read it (the tick set nextIter from it).
TickStart == nextIter - LoopSeconds

\* DueItems without the status filter.
DueItems_AnyStatus(d, n) ==
    GetAll(d, None, None, None, AnyStatus, None, None, None, n + HorizonSeconds)

\* DueItems looking two intervals ahead.
DueItems_TwoIntervals(d, n) ==
    GetAll(d, None, None, None, "WAITING", None, None, None,
           n + 2 * HorizonSeconds)

\* DueItems with the horizon itself included (<= instead of <).
DueItems_Inclusive(d, n) ==
    GetAll(d, None, None, None, "WAITING", None, None, None,
           n + HorizonSeconds + 1)

\* DueItems selecting FAILED items again as well.
DueItems_RetryFailed(d, n) ==
    OrderedDesc(d,
        Matching(d, None, None, None, "WAITING", None, None, None,
                 n + HorizonSeconds)
        \cup Matching(d, None, None, None, "FAILED", None, None, None,
                      n + HorizonSeconds))

\* The query of a tick that reads the clock at n:
\* get_all(status=WAITING, max_remind_date=n + 30 s).
DueItems(d, n) ==
    GetAll(d, None, None, None, "WAITING", None, None, None, n + HorizonSeconds)

\* Reminder.reminder up to its first await: read the clock, query the table.
\* An empty list ends the tick at once.  A retried iteration keeps the time
\* of the next one.
reminder ==
    /\ \/ loopState = "sleeping" /\ now >= nextIter
       \/ loopState = "retrying"
    /\ \E s \in DueItems(db, now) :
          /\ items' = s
          /\ loopState' = IF s = <<>> THEN "sleeping" ELSE "running"
          /\ phase' = IF s = <<>> THEN "idle" ELSE "resolve"
    /\ nextIter' = IF loopState = "retrying" THEN nextIter
                   ELSE now + LoopSeconds
    /\ onTime' = (onTime /\ now = nextIter)
    /\ last' = Ev("tick", 0, 0, "ok", "NONE")
    /\ UNCHANGED <<now, db, nextIdx, botReady, pending, calls, resched>>
    /\ UNCHANGED <<cmds, loads>>

\* Reminder._get_member(user_id, guild_id).  guildKnown: bot.get_guild finds
\* the guild (None otherwise, and guild.get_member then raises
\* AttributeError); member: guild.get_member finds the user; fetch: what
\* bot.fetch_user does (only discord.errors.NotFound is caught).
GetMember(guild_id, guildKnown, member, fetch) ==
    IF guild_id > 0 /\ ~guildKnown THEN "AttributeError"
    ELSE IF guild_id > 0 /\ member THEN "user"
    ELSE IF fetch = "found" THEN "user"
    ELSE IF fetch = "NotFound" THEN "none"
    ELSE "HTTPException"

FetchResults == {"found", "NotFound", "HTTPException"}

\* What _get_member may do for a user of guild_id, over what the bot can
\* reach.
Resolutions(guild_id) ==
    {GetMember(guild_id, guildKnown, member, fetch) :
        guildKnown \in BOOLEAN, member \in BOOLEAN, fetch \in FetchResults}

\* How _remind may come to its delivery call for a row of guild_id: the
\* recipient is resolved, and when a user is found _get_embed resolves the
\* author with _get_member too, where fetch_user may raise.
Attempts(guild_id) ==
    Resolutions(guild_id) \cup
        (IF "user" \in Resolutions(guild_id) THEN {"HTTPException"} ELSE {})

\* The same for idx as the tick holds it.  A row deleted since the tick's
\* query is a detached object: reading it raises when its attributes are
\* expired and gives the old values when they are loaded.
RemindOutcomes(d, idx) ==
    IF idx \in DOMAIN d
    THEN Attempts(d[idx].guild_id)
    ELSE {"DetachedInstanceError"} \cup UNION {Attempts(g) : g \in Guilds}

\* SendStatus with the except branch storing REMINDED too.
SendStatus_Reminded(outcome) == "REMINDED"

\* The status _remind stores for an outcome of reminded_user.send that it
\* handles: except (HTTPException, Forbidden) -> FAILED, no exception ->
\* REMINDED.
SendStatus(outcome) == IF outcome = "ok" THEN "REMINDED" ELSE "FAILED"

\* The outcomes of reminded_user.send; "OSError" is a connection error and
\* "other" any further exception that is not an HTTPException.
SendOutcomes == {"ok", "Forbidden", "HTTPException", "OSError", "other"}

\* The outcomes of send that _remind handles without raising.
SendHandled(outcome) == outcome \in {"ok", "Forbidden", "HTTPException"}

\* A status write that reaches every stored row.
SetStatus_Every(d, idx, status) ==
    [i \in DOMAIN d |-> [d[i] EXCEPT !.status = status]]

\* item.status = status; item.save(): the row, when still stored, is updated.
SetStatus(d, idx, status) ==
    IF idx \in DOMAIN d THEN [d EXCEPT ![idx].status = status] ELSE d

\* _remind(Head(items)) returned: the for loop goes on to the next item, or
\* the tick ends and the loop sleeps.
NextItem ==
    /\ items' = Tail(items)
    /\ loopState' = IF Tail(items) = <<>> THEN "sleeping" ELSE "running"
    /\ phase' = IF Tail(items) = <<>> THEN "idle" ELSE "resolve"
    /\ UNCHANGED <<nextIter, onTime>>

\* The exceptions after which a tasks.loop runs its iteration again
\* (reconnect=True, the default of the decorator): connection errors.
LoopRetries(exc) == exc = "OSError"

\* An exception leaves _remind and, nothing in Reminder.reminder catching
\* it, the tick: the rest of the list is dropped.  The loop runs the
\* iteration again after a connection error, and is over after any other
\* exception.
RaiseOutOfTick(exc) ==
    /\ items' = <<>>
    /\ phase' = "idle"
    /\ onTime' = FALSE
    /\ IF LoopRetries(exc)
       THEN /\ loopState' = "retrying"
            /\ UNCHANGED nextIter
       ELSE /\ loopState' = "failed"
            /\ nextIter' = 0

\* _remind, from the call up to the delivery call: FAILED when _get_member
\* returns None for the recipient; reminded_user.send is called when a user
\* is found and the embed is built.
RemindResolve ==
    /\ loopState = "running"
    /\ phase = "resolve"
    /\ LET idx == Head(items) IN
       \E got \in RemindOutcomes(db, idx) :
              /\ last' = Ev("resolve", idx, 0, got, StatusOf(db, idx))
              /\ CASE got = "user" ->
                        /\ calls[idx] < MaxCalls
                        /\ calls' = [calls EXCEPT ![idx] = @ + 1]
                        /\ phase' = "send"
                        /\ UNCHANGED <<db, loopState, nextIter, items,
                                       onTime>>
                   [] got = "none" ->
                        /\ db' = SetStatus(db, idx, "FAILED")
                        /\ NextItem
                        /\ UNCHANGED calls
                   [] OTHER ->
                        /\ RaiseOutOfTick(got)
                        /\ UNCHANGED <<db, calls>>
    /\ UNCHANGED <<now, nextIdx, botReady, pending, resched>>
    /\ UNCHANGED <<cmds, loads>>

\* _remind, from the return of reminded_user.send to the status write.
RemindSend ==
    /\ loopState = "running"
    /\ phase = "send"
    /\ LET idx == Head(items) IN
       \E outcome \in SendOutcomes :
          /\ last' = Ev("send", idx, 0, outcome, StatusOf(db, idx))
          /\ IF SendHandled(outcome)
             THEN /\ db' = SetStatus(db, idx, SendStatus(outcome))
                  /\ NextItem
             ELSE /\ RaiseOutOfTick(outcome)
                  /\ UNCHANGED db
    /\ UNCHANGED <<now, nextIdx, botReady, pending, calls, resched>>
    /\ UNCHANGED <<cmds, loads>>

\* ---------------------------------------------------------------------------
\* Commands that create an item
\* ---------------------------------------------------------------------------

\* The handlers' check of a typed date against the clock n:
\* if date < datetime.now(): reply "... time must be in future" and return
\* (remindme, remind, reminder_reschedule, RemindModal.on_submit).
DateRejected(date, n) == date < n

\* ReminderItem.add storing every row under the first idx.
Add_FirstIdx(op, user, guild, recipient, message, date) ==
    IF AddRaises(date, now)
    THEN /\ last' = Ev(op, 0, user, "ValueError", "NONE")
         /\ UNCHANGED <<db, nextIdx>>
    ELSE /\ db' = (1 :> ReminderItem(guild, user, recipient,
                                     message, now, date)) @@ db
         /\ nextIdx' = nextIdx + 1
         /\ last' = Ev(op, nextIdx, user, "created", "NONE")

\* ReminderItem.add: origin_date is overwritten with datetime.now(); the row
\* is stored with the next idx and status WAITING unless the date check
\* raises ValueError.
Add(op, user, guild, recipient, message, date) ==
    IF AddRaises(date, now)
    THEN /\ last' = Ev(op, 0, user, "ValueError", "NONE")
         /\ UNCHANGED <<db, nextIdx>>
    ELSE /\ db' = db @@ (nextIdx :> ReminderItem(guild, user, recipient,
                                                 message, now, date))
         /\ nextIdx' = nextIdx + 1
         /\ last' = Ev(op, nextIdx, user, "created", "NONE")

\* remindme: a reminder for the author; guild is the author's guild, 0 in a
\* direct message.
remindme(user, guild, date, message) ==
    /\ nextIdx <= MaxItems
    /\ IF DateRejected(date, now)
       THEN /\ last' = Ev("remindme", 0, user, "invalid", "NONE")
            /\ UNCHANGED <<db, nextIdx>>
       ELSE Add("remindme", user, guild, user, message, date)
    /\ UNCHANGED <<now, botReady, schedVars, pending, calls, resched>>
    /\ cmds < MaxCommands
    /\ cmds' = cmds + 1
    /\ UNCHANGED loads

\* remind (guild only): a reminder for another member.
remind(user, guild, member, date, message) ==
    /\ nextIdx <= MaxItems
    /\ guild > 0
    /\ IF DateRejected(date, now)
       THEN /\ last' = Ev("remind", 0, user, "invalid", "NONE")
            /\ UNCHANGED <<db, nextIdx>>
       ELSE Add("remind", user, guild, member, message, date)
    /\ UNCHANGED <<now, botReady, schedVars, pending, calls, resched>>
    /\ cmds < MaxCommands
    /\ cmds' = cmds + 1
    /\ UNCHANGED loads

\* RemindModal.on_submit without a reminder: _add_reminder.
on_submit_add(user, guild, recipient, date, message) ==
    /\ nextIdx <= MaxItems
    /\ IF DateRejected(date, now)
       THEN /\ last' = Ev("modal_add", 0, user, "invalid", "NONE")
            /\ UNCHANGED <<db, nextIdx>>
       ELSE Add("modal_add", user, guild, recipient, message, date)
    /\ UNCHANGED <<now, botReady, schedVars, pending, calls, resched>>
    /\ cmds < MaxCommands
    /\ cmds' = cmds + 1
    /\ UNCHANGED loads

\* ---------------------------------------------------------------------------
\* Commands on a stored item: request, then the ConfirmView dialog
\* ---------------------------------------------------------------------------

\* An open ConfirmView and what its handler will do when confirmed.
Request(op, user, idx, date, message) ==
    [op |-> op, user |-> user, idx |-> idx, date |-> date, message |-> message]

\* view.send() is awaited: the dialog is open.
Ask(op, user, idx, date, message) ==
    /\ Cardinality(pending) < MaxPending
    /\ pending' = pending \cup {Request(op, user, idx, date, message)}
    /\ last' = Ev(op, idx, user, "asked", "NONE")

\* A handler replies and returns without opening a dialog.
Reply(op, user, idx, result) ==
    /\ last' = Ev(op, idx, user, result, "NONE")
    /\ UNCHANGED pending

\* NotRecipient letting the item's author through as well.
NotRecipient_NorAuthor(d, idx, user) ==
    user \notin {d[idx].recipient_id, d[idx].author_id}

\* The check of reminder_reschedule and reminder_delete:
\* if query.recipient_id != ctx.author.id: "Can't ... other's reminders."
NotRecipient(d, idx, user) == d[idx].recipient_id # user

\* reminder_reschedule up to view.send().  get_all returns a list, never
\* None, so for an unknown idx the check "query is None" passes and query[0]
\* raises IndexError.
reminder_reschedule(user, idx, date) ==
    /\ IF GetById(db, idx) = {}
       THEN Reply("reschedule", user, idx, "IndexError")
       ELSE IF NotRecipient(db, idx, user)
       THEN Reply("reschedule", user, idx, "denied")
       ELSE IF DateRejected(date, now)
       THEN Reply("reschedule", user, idx, "invalid")
       ELSE Ask("reschedule", user, idx, date, db[idx].message)
    /\ UNCHANGED <<now, db, nextIdx, botReady, schedVars, calls, resched>>
    /\ cmds < MaxCommands
    /\ cmds' = cmds + 1
    /\ UNCHANGED loads

\* reminder_delete up to view.send().
reminder_delete(user, idx) ==
    /\ IF GetById(db, idx) = {}
       THEN Reply("delete", user, idx, "notfound")
       ELSE IF NotRecipient(db, idx, user)
       THEN Reply("delete", user, idx, "denied")
       ELSE Ask("delete", user, idx, db[idx].remind_date, db[idx].message)
    /\ UNCHANGED <<now, db, nextIdx, botReady, schedVars, calls, resched>>
    /\ cmds < MaxCommands
    /\ cmds' = cmds + 1
    /\ UNCHANGED loads

\* Who may open the edit modal on an item: its recipient (the command that
\* builds RemindModal with a reminder is not part of the sources).
EditAllowed(d, user, idx) ==
    idx \in DOMAIN d /\ d[idx].recipient_id = user

\* RemindModal.on_submit with a reminder: _edit_reminder up to view.send().
on_submit_edit(user, idx, date, message) ==
    /\ EditAllowed(db, user, idx)
    /\ IF DateRejected(date, now)
       THEN Reply("edit", user, idx, "invalid")
       ELSE Ask("edit", user, idx, date, message)
    /\ UNCHANGED <<now, db, nextIdx, botReady, schedVars, calls, resched>>
    /\ cmds < MaxCommands
    /\ cmds' = cmds + 1
    /\ UNCHANGED loads

\* reminder_get: get_all(guild=ctx.guild, idx=idx); ctx.guild is None in a
\* direct message (guild 0 here), where ctx.guild.get_member, called for an
\* author or recipient other than the caller, raises AttributeError.
reminder_get(user, guild, idx) ==
    /\ LET query == Matching(db, IF guild = 0 THEN None ELSE guild, idx, None,
                             AnyStatus, None, None, None, None)
       IN  IF query = {}
           THEN Reply("get", user, idx, "notfound")
           ELSE IF user \notin {db[idx].author_id, db[idx].recipient_id}
           THEN Reply("get", user, idx, "denied")
           ELSE IF guild = 0 /\ db[idx].author_id # db[idx].recipient_id
           THEN Reply("get", user, idx, "AttributeError")
           ELSE Reply("get", user, idx, "shown")
    /\ UNCHANGED <<now, db, nextIdx, botReady, schedVars, calls, resched>>
    /\ cmds < MaxCommands
    /\ cmds' = cmds + 1
    /\ UNCHANGED loads

\* reminder_clean: ReminderItem.batch_delete(ctx.guild, ctx.author, before) is
\* evaluated first, and the class ReminderItem defines no batch_delete: the
\* attribute lookup raises AttributeError before anything is deleted or
\* replied.
reminder_clean(user, guild) ==
    /\ Reply("clean", user, 0, "AttributeError")
    /\ UNCHANGED <<now, db, nextIdx, botReady, schedVars, calls, resched>>
    /\ cmds < MaxCommands
    /\ cmds' = cmds + 1
    /\ UNCHANGED loads

\* query.remind_date = date; query.status = WAITING; (the edit modal also:
\* message = message;)
\* save() on the object the handler holds.  A row deleted meanwhile is a
\* detached object: the commit writes nothing.
Rescheduled(d, r) ==
    IF r.idx \in DOMAIN d
    THEN [d EXCEPT ![r.idx] = [@ EXCEPT !.remind_date = r.date,
                                        !.status = "WAITING",
                                        !.message = IF r.op = "edit"
                                                    THEN r.message
                                                    ELSE @]]
    ELSE d

\* query.delete(): session.delete raises for a row that is already gone.
Deleted(d, r) == [i \in DOMAIN d \ {r.idx} |-> d[i]]

\* The dialog returns True.
ConfirmYes(r) ==
    /\ r \in pending
    /\ pending' = pending \ {r}
    /\ IF r.idx \notin DOMAIN db
       THEN /\ last' = Ev(r.op, r.idx, r.user, "gone", "NONE")
            /\ UNCHANGED <<db, resched>>
       ELSE /\ last' = Ev(r.op, r.idx, r.user, "confirmed", db[r.idx].status)
            /\ IF r.op = "delete"
               THEN /\ db' = Deleted(db, r)
                    /\ UNCHANGED resched
               ELSE /\ resched[r.idx] < MaxReschedules
                    /\ db' = Rescheduled(db, r)
                    /\ resched' = [resched EXCEPT ![r.idx] = @ + 1]
    /\ UNCHANGED <<now, nextIdx, botReady, schedVars, calls>>
    /\ UNCHANGED <<cmds, loads>>

\* The dialog returns False and the handler applies the request all the same.
ConfirmNo_Applies(r) ==
    /\ r \in pending
    /\ pending' = pending \ {r}
    /\ last' = Ev(r.op, r.idx, r.user, "aborted", StatusOf(db, r.idx))
    /\ db' = IF r.op = "delete" THEN Deleted(db, r) ELSE Rescheduled(db, r)
    /\ UNCHANGED <<now, nextIdx, botReady, schedVars, calls, resched>>
    /\ UNCHANGED <<cmds, loads>>

\* The dialog returns False.
ConfirmNo(r) ==
    /\ r \in pending
    /\ pending' = pending \ {r}
    /\ last' = Ev(r.op, r.idx, r.user, "aborted", StatusOf(db, r.idx))
    /\ UNCHANGED <<now, db, nextIdx, botReady, schedVars, calls, resched>>
    /\ UNCHANGED <<cmds, loads>>

\* The dialog returns None.
ConfirmTimeout(r) ==
    /\ r \in pending
    /\ pending' = pending \ {r}
    /\ last' = Ev(r.op, r.idx, r.user, "timeout", StatusOf(db, r.idx))
    /\ UNCHANGED <<now, db, nextIdx, botReady, schedVars, calls, resched>>
    /\ UNCHANGED <<cmds, loads>>

\* ---------------------------------------------------------------------------
\* The specification
\* ---------------------------------------------------------------------------

Next ==
    \/ AdvanceTime
    \/ BotReady
    \/ before_reminder
    \/ cog_unload
    \/ cog_load
    \/ reminder
    \/ RemindResolve
    \/ RemindSend
    \/ \E u \in Authors, g \in Guilds, d \in Dates, m \in Texts :
          remindme(u, g, d, m)
    \/ \E u \in Authors, g \in Guilds, v \in Users, d \in Dates, m \in Texts :
          remind(u, g, v, d, m)
    \/ \E u \in Authors, g \in Guilds, v \in Users, d \in Dates, m \in Texts :
          on_submit_add(u, g, v, d, m)
    \/ \E u \in Users, i \in Ids, d \in Dates : reminder_reschedule(u, i, d)
    \/ \E u \in Users, i \in Ids : reminder_delete(u, i)
    \/ \E u \in Users, i \in Ids, d \in Dates, m \in Messages :
          on_submit_edit(u, i, d, m)
    \/ \E u \in Users, g \in Guilds, i \in Ids : reminder_get(u, g, i)
    \/ \E u \in Users, g \in Guilds : reminder_clean(u, g)
    \/ \E r \in pending : ConfirmYes(r)
    \/ \E r \in pending : ConfirmNo(r)
    \/ \E r \in pending : ConfirmTimeout(r)

Spec == Init /\ [][Next]_vars

\* LongTime: how far the clock runs when only the loop and the creating
\* commands act.
LongTime == 60

AdvanceTimeLong == AdvanceTimeTo(LongTime)

\* The loop and the creating commands alone, over a longer time.
TimingNext ==
    \/ AdvanceTimeLong
    \/ BotReady
    \/ before_reminder
    \/ reminder
    \/ RemindResolve
    \/ RemindSend
    \/ \E u \in Authors, g \in Guilds, d \in Dates, m \in Texts :
          remindme(u, g, d, m)
    \/ \E u \in Authors, g \in Guilds, v \in Users, d \in Dates, m \in Texts :
          remind(u, g, v, d, m)

SpecTiming == Init /\ [][TimingNext]_vars

\* ---------------------------------------------------------------------------
\* The text of a countdown message (Countdown._process_text)
\* ---------------------------------------------------------------------------

\* len(text) > 1024, text[:1024]
TextCap == 1024

\* MaxTail: how many characters before the cut vary; MaxOver: how many
\* characters a text has beyond the cut.
MaxTail == 6
MaxOver == 2

\* A character of a message: "B" stands for the backtick, "x" for every other
\* character.
Backtick == "B"

Chars == {Backtick, "x"}

\* The delimiter of a code block, three backticks.
Fence == <<Backtick, Backtick, Backtick>>

\* text is None
NoText == <<"None">>

\* The first position of the run of backticks that position i lies in.
RunStart(text, i) ==
    CHOOSE j \in 1..i :
        /\ \A k \in j..i : text[k] = Backtick
        /\ (j = 1 \/ text[j - 1] # Backtick)

\* text.count of the delimiter: the occurrences found from left to right
\* without overlap.  A run of backticks that starts at s holds one occurrence
\* ending at s + 2, one ending at s + 5, and so on.
Count(text) ==
    Cardinality({i \in 1..Len(text) :
                    /\ text[i] = Backtick
                    /\ (i - RunStart(text, i) + 1) % 3 = 0})

\* Countdown._process_text
process_text(text) ==
    IF text # NoText /\ Len(text) > TextCap
    THEN LET cut == SubSeq(text, 1, TextCap)
         IN  IF Count(cut) % 2 # 0
             THEN SubSeq(cut, 1, Len(cut) - 3) \o Fence
             ELSE cut
    ELSE text

\* n characters other than the backtick.
Pad(n) == [i \in 1..n |-> "x"]

\* The texts of at most n characters.
TextsUpTo(n) == UNION {[1..k -> Chars] : k \in 0..n}

\* Texts of TextCap characters and more: an open code block or none at the
\* start, any characters just before the cut, any characters after it.
LongTexts ==
    {h \o Pad(TextCap - Len(h) - MaxTail) \o w \o r :
        h \in {<<>>, Fence}, w \in [1..MaxTail -> Chars], r \in TextsUpTo(MaxOver)}

\* The texts the command is given: long ones, short ones and none.
TextInputs == LongTexts \cup TextsUpTo(MaxTail) \cup {NoText}

\* A text arrives with the command.
TextInit ==
    /\ now = 0
    /\ db = <<>>
    /\ nextIdx = 1
    /\ botReady = FALSE
    /\ loopState = "before_loop"
    /\ nextIter = 0
    /\ items = <<>>
    /\ phase = "idle"
    /\ onTime = TRUE
    /\ pending = {}
    /\ calls = [i \in Ids |-> 0]
    /\ resched = [i \in Ids |-> 0]
    /\ cmds = 0
    /\ loads = 1
    /\ \E t \in TextInputs : last = [op |-> "text", text |-> t]

\* The command passes its text through _process_text.
ProcessText ==
    /\ last.op = "text"
    /\ last' = [op |-> "processed", text |-> last.text,
                result |-> process_text(last.text)]
    /\ UNCHANGED <<now, db, nextIdx, botReady, loopState, nextIter, items,
                   phase, onTime, pending, calls, resched, cmds, loads>>

TextNext == ProcessText

SpecText == TextInit /\ [][TextNext]_vars

\* ---------------------------------------------------------------------------
\* Queries on a stored table (ReminderItem.get_all)
\* ---------------------------------------------------------------------------

\* The rows a table may hold.
Rows ==
    [guild_id : Guilds, author_id : Authors, recipient_id : Users,
     permalink : {Permalink}, message : Texts, origin_date : {0, ClockStep},
     remind_date : Dates, status : ReminderStatus]

\* The tables: some of the ids are stored, each with any row.
Tables == UNION {[S -> Rows] : S \in SUBSET Ids}

\* The arguments of a get_all call: each filter is omitted or supplied.  The
\* date bounds supplied are dates that rows hold, so that a row on the bound
\* exists.
Filters ==
    [guild : {None} \cup (Guilds \ {0}), idx : {None} \cup Ids,
     recipient : {None, 1}, status : {AnyStatus, "WAITING"},
     minOrigin : {None, 0}, maxOrigin : {None, ClockStep},
     minRemind : {None, ClockStep}, maxRemind : {None, MaxTime + ClockStep}]

\* Some table is stored.
QueryInit ==
    /\ now = 0
    /\ db \in Tables
    /\ nextIdx = MaxItems + 1
    /\ botReady = FALSE
    /\ loopState = "before_loop"
    /\ nextIter = 0
    /\ items = <<>>
    /\ phase = "idle"
    /\ onTime = TRUE
    /\ pending = {}
    /\ calls = [i \in Ids |-> 0]
    /\ resched = [i \in Ids |-> 0]
    /\ cmds = 0
    /\ loads = 1
    /\ last = [op |-> "table"]

\* A caller runs ReminderItem.get_all(...) with the filters f and gets a list.
get_all(f) ==
    /\ last.op = "table"
    /\ \E res \in GetAll(db, f.guild, f.idx, f.recipient, f.status,
                         f.minOrigin, f.maxOrigin, f.minRemind, f.maxRemind) :
          last' = [op |-> "query", filters |-> f, result |-> res]
    /\ UNCHANGED <<now, db, nextIdx, botReady, loopState, nextIter, items,
                   phase, onTime, pending, calls, resched, cmds, loads>>

QueryNext == \E f \in Filters : get_all(f)

SpecQuery == QueryInit /\ [][QueryNext]_vars

\* ---------------------------------------------------------------------------
\* The countdown facility (src/countdown)
\* ---------------------------------------------------------------------------
\* In SpecCountdown the variable db holds the table fun_countdown_item
\* (idx -> row), nextIdx its autoincrement and pending the open dialogs of
\* countdown delete; the reminder loop is not started.

\* The names a user may give a countdown.
Names == {"n1", "n2"}

\* The texts typed with countdown set.
CountdownTexts == {NoText, <<"x">>}

\* CountdownItem(...) as built by CountdownItem.add
CountdownItem(guild, author, name, message, origin, date) ==
    [guild_id |-> guild, author_id |-> author, name |-> name,
     permalink |-> Permalink, message |-> message, origin_date |-> origin,
     countdown_date |-> date]

\* A lookup that never finds a row.
CountdownGet_Nothing(d, author, name) == {}

\* CountdownItem.get: the rows filter_by(author_id=author_id, name=name)
\* matches; one_or_none() returns the row, None, or raises on several.
CountdownGet(d, author, name) ==
    {i \in DOMAIN d : d[i].author_id = author /\ d[i].name = name}

\* countdown_set.  From the lookup to session.commit() in CountdownItem.add
\* the handler does not give up control: _process_text awaits nothing, so
\* `await self._process_text(ctx, text)` returns without suspending, and
\* parse_datetime and add are plain calls.  No other handler runs in between.
\* The step's record carries the name in its last field.
countdown_set(user, guild, name, date, text) ==
    /\ nextIdx <= MaxItems \/ CountdownGet(db, user, name) # {}
    /\ LET found == CountdownGet(db, user, name) IN
       IF Cardinality(found) > 1
       THEN /\ last' = Ev("countdown_set", 0, user, "MultipleResultsFound", name)
            /\ UNCHANGED <<db, nextIdx>>
       ELSE IF found # {}
       THEN /\ last' = Ev("countdown_set", CHOOSE i \in found : TRUE, user,
                          "exists", name)
            /\ UNCHANGED <<db, nextIdx>>
       ELSE IF DateRejected(date, now)
       THEN /\ last' = Ev("countdown_set", 0, user, "invalid", name)
            /\ UNCHANGED <<db, nextIdx>>
       ELSE IF AddRaises(date, now)
       THEN /\ last' = Ev("countdown_set", 0, user, "ValueError", name)
            /\ UNCHANGED <<db, nextIdx>>
       ELSE /\ db' = db @@ (nextIdx :> CountdownItem(guild, user, name,
                                                      process_text(text),
                                                      now, date))
            /\ nextIdx' = nextIdx + 1
            /\ last' = Ev("countdown_set", nextIdx, user, "created", name)
    /\ UNCHANGED <<now, botReady, schedVars, pending, calls, resched>>
    /\ UNCHANGED <<cmds, loads>>

\* countdown_delete up to view.send().
countdown_delete(user, name) ==
    /\ LET found == CountdownGet(db, user, name) IN
       IF Cardinality(found) > 1
       THEN Reply("delete", user, 0, "MultipleResultsFound")
       ELSE IF found = {}
       THEN Reply("delete", user, 0, "notfound")
       ELSE LET idx == CHOOSE i \in found : TRUE
            IN  Ask("delete", user, idx, db[idx].countdown_date, db[idx].message)
    /\ UNCHANGED <<now, db, nextIdx, botReady, schedVars, calls, resched>>
    /\ UNCHANGED <<cmds, loads>>

\* countdown_delete after view.send() returned True: countdown.delete().
\* session.delete raises for a row that another dialog has deleted already.
CountdownConfirmYes(r) ==
    /\ r \in pending
    /\ pending' = pending \ {r}
    /\ IF r.idx \notin DOMAIN db
       THEN /\ last' = Ev(r.op, r.idx, r.user, "gone", "NONE")
            /\ UNCHANGED db
       ELSE /\ last' = Ev(r.op, r.idx, r.user, "confirmed", db[r.idx].name)
            /\ db' = Deleted(db, r)
    /\ UNCHANGED <<now, nextIdx, botReady, schedVars, calls, resched>>
    /\ UNCHANGED <<cmds, loads>>

\* countdown_delete after view.send() returned False or None (timeout).
CountdownConfirmNo(r) ==
    /\ r \in pending
    /\ pending' = pending \ {r}
    /\ \E result \in {"aborted", "timeout"} :
          last' = Ev(r.op, r.idx, r.user, result, "NONE")
    /\ UNCHANGED <<now, db, nextIdx, botReady, schedVars, calls, resched>>
    /\ UNCHANGED <<cmds, loads>>

\* The countdown commands, the dialogs of countdown delete and the clock.
CountdownNext ==
    \/ AdvanceTime
    \/ \E u \in Users, g \in Guilds, n \in Names, d \in Dates,
          t \in CountdownTexts : countdown_set(u, g, n, d, t)
    \/ \E u \in Users, n \in Names : countdown_delete(u, n)
    \/ \E r \in pending : CountdownConfirmYes(r)
    \/ \E r \in pending : CountdownConfirmNo(r)

SpecCountdown == Init /\ [][CountdownNext]_vars

\* ---------------------------------------------------------------------------
\* Properties
\* ---------------------------------------------------------------------------

\* C1: the loop never calls _remind on an item whose stored status is
\* REMINDED or FAILED, and _remind writes a terminal status only over WAITING
\* (so an item turns terminal at most once between two confirmed
\* reschedules): every item a running tick still holds is WAITING or no
\* longer stored, and so was the item of the last step of _remind when that
\* step began.
C1_OnlyWaitingAttempted ==
    /\ \A k \in 1..Len(items) : StatusOf(db, items[k]) \in {"WAITING", "NONE"}
    /\ last.op \in {"resolve", "send"} => last.pre \in {"WAITING", "NONE"}

\* C1: an item delivered, rescheduled, and delivered again from WAITING.
C1_Witness ==
    /\ last.op = "send"
    /\ last.result = "ok"
    /\ last.pre = "WAITING"
    /\ calls[last.idx] = 2
    /\ resched[last.idx] = 1

\* C2: a creation whose due time is not after the current time stores
\* nothing: every item a creating command has just stored is due after now.
C2_DueNowRejected ==
    (last.op \in {"remindme", "remind", "modal_add"} /\ last.result = "created")
        => db[last.idx].remind_date > now

\* The last step is a call of _remind that returned or went on to deliver,
\* in a tick of a loop that has ticked every LoopSeconds since time 0, for a
\* stored item that was never rescheduled.
C3_RegularAttempt ==
    /\ last.op = "resolve"
    /\ last.result \in {"user", "none"}
    /\ onTime
    /\ last.idx \in DOMAIN db
    /\ resched[last.idx] = 0

C4_FailureContained ==
    (last.op \in {"resolve", "send"} /\ last.result \notin {"user", "ok"})
        => loopState \in {"running", "sleeping"}

\* C5: the delivery calls made for an item never exceed one plus its
\* confirmed reschedules.
C5_CallsBounded ==
    \A i \in Ids : calls[i] <= 1 + resched[i]

\* C6: when the recipient of a stored item cannot be resolved (_get_member
\* finds no user, or the item's guild is out of the bot's reach), _remind
\* stores FAILED and raises nothing.
C6_UnresolvedFails ==
    ( /\ last.op = "resolve"
      /\ last.result \in {"none", "AttributeError"}
      /\ last.idx \in DOMAIN db )
        => /\ db[last.idx].status = "FAILED"
           /\ loopState \in {"running", "sleeping"}

\* C7: when _remind has returned, the stored status of its item is REMINDED
\* exactly when reminded_user.send succeeded, and FAILED when send was
\* refused or failed with an HTTP error or no recipient was found; it is
\* never WAITING.
C7_StatusMatchesOutcome ==
    /\ ( /\ last.op = "send"
         /\ last.result \in {"ok", "Forbidden", "HTTPException"}
         /\ last.idx \in DOMAIN db )
           => db[last.idx].status =
                 (IF last.result = "ok" THEN "REMINDED" ELSE "FAILED")
    /\ ( /\ last.op = "resolve"
         /\ last.result = "none"
         /\ last.idx \in DOMAIN db )
           => db[last.idx].status = "FAILED"

\* C7: a refused delivery has been stored as FAILED.
C7_Witness ==
    /\ last.op = "send"
    /\ last.result = "Forbidden"
    /\ last.idx \in DOMAIN db
    /\ db[last.idx].status = "FAILED"

\* C8: a reschedule or edit whose new due time is not after the current time
\* is rejected: every dialog a request has just opened asks for a due time
\* after now.
C8_PastRescheduleRejected ==
    (last.op \in {"reschedule", "edit"} /\ last.result = "asked")
        => \A r \in pending :
              (r.op = last.op /\ r.idx = last.idx /\ r.user = last.user)
                  => r.date > now

\* C9: reschedule, delete and get on an id that is not stored answer that the
\* reminder does not exist.
C9_UnknownIdNotFound ==
    ( /\ last.op \in {"reschedule", "delete", "get"}
      /\ last.result \in {"IndexError", "AttributeError", "notfound",
                          "denied", "invalid", "asked", "shown"}
      /\ last.idx \notin DOMAIN db )
        => last.result = "notfound"

\* A step keeps to the recipient's rights: a command-layer step that changes
\* the due time, the status or the existence of an item is the confirmation
\* of a request of the item's recipient, and a reschedule or delete command
\* of anyone else is denied, opening no dialog and changing nothing.
C10_Step ==
    /\ \A i \in DOMAIN db :
          ( /\ last'.op \notin {"resolve", "send"}
            /\ \/ i \notin DOMAIN db'
               \/ db'[i].remind_date # db[i].remind_date
               \/ db'[i].status # db[i].status )
              => /\ last'.idx = i
                 /\ last'.user = db[i].recipient_id
    /\ \A i \in DOMAIN db :
          ( /\ cmds' = cmds + 1
            /\ last'.op \in {"reschedule", "delete"}
            /\ last'.idx = i
            /\ last'.user # db[i].recipient_id )
              => /\ last'.result = "denied"
                 /\ pending' = pending
                 /\ db' = db

\* C10: reschedule and delete requests of a user who is not the item's
\* recipient (its author included) are rejected, and the command layer
\* changes an item's due time, status and existence only on requests of its
\* recipient.
C10_OnlyRecipientChanges == [][C10_Step]_vars

\* C10: the author of an item made for someone else was denied.
C10_Witness ==
    /\ last.op \in {"reschedule", "delete"}
    /\ last.result = "denied"
    /\ last.idx \in DOMAIN db
    /\ db[last.idx].author_id = last.user
    /\ db[last.idx].recipient_id # last.user

\* C11: once the deletion of an item is committed no delivery call is started
\* for it, and a tick that had selected it skips it without an error: when
\* _remind is called for an item that is no longer stored, it makes no
\* delivery call and raises nothing.
C11_DeletedSkipped ==
    (last.op = "resolve" /\ last.idx \notin DOMAIN db)
        => /\ last.result # "user"
           /\ loopState \in {"running", "sleeping"}

\* The items of the list the running tick still holds.
C12_Selected == {items[k] : k \in 1..Len(items)}

C13_Step == loopState = "running" => loopState' # "cancelled"

\* C13: stopping the loop (cog_unload) never interrupts a tick in progress:
\* no step takes the loop from inside a tick to cancelled.
C13_TickNotInterrupted == [][C13_Step]_vars

\* A step respects a requested stop: cog_unload leaves the loop cancelled,
\* and a cancelled loop stays cancelled, starting no tick, calling _remind for
\* no item and making no delivery call, until the cog is loaded again.
C14_Step ==
    /\ last'.op = "cog_unload" => loopState' = "cancelled"
    /\ (loopState = "cancelled" /\ last'.op # "cog_load") =>
          /\ loopState' = "cancelled"
          /\ last'.op \notin {"tick", "resolve", "send"}
          /\ calls' = calls
          /\ items' = <<>>

\* C14: after the stop of the loop has been requested (cog_unload) no new
\* tick starts.
C14_NoTickAfterStop == [][C14_Step]_vars

\* C14: time has passed over a cancelled loop that had a due item to select.
C14_Witness ==
    /\ loopState = "cancelled"
    /\ last.op = "time"
    /\ \E i \in DOMAIN db :
          db[i].status = "WAITING" /\ db[i].remind_date <= now

\* C15: no tick runs before the host has signalled readiness, although the
\* loop is started when the cog is constructed: until then the loop is before
\* its first iteration (or cancelled), holds no item, and no item has been
\* attempted.
C15_NoTickBeforeReady ==
    ~botReady =>
        /\ loopState \in {"before_loop", "cancelled"}
        /\ items = <<>>
        /\ phase = "idle"
        /\ last.op \notin {"tick", "resolve", "send"}
        /\ \A i \in Ids : calls[i] = 0
        /\ \A i \in DOMAIN db : db[i].status = "WAITING"

\* C15: an item is overdue while the started loop still waits for readiness.
C15_Witness ==
    /\ ~botReady
    /\ loopState = "before_loop"
    /\ \E i \in DOMAIN db :
          db[i].status = "WAITING" /\ db[i].remind_date <= now

\* C16: no outcome of an attempt leaves its item WAITING or stops the loop:
\* once _remind has ended for a stored item, however its resolution or its
\* delivery call went, the item is REMINDED or FAILED and the loop goes on.
C16_OutcomeIsTerminal ==
    ( /\ last.op \in {"resolve", "send"}
      /\ last.result # "user"
      /\ last.idx \in DOMAIN db )
        => /\ db[last.idx].status \in {"REMINDED", "FAILED"}
           /\ loopState # "failed"

\* A step changes statuses only along the item's lifecycle: a stored item's
\* status changes from WAITING to REMINDED or FAILED in a step of _remind on
\* that item, or to WAITING in the confirmation of a reschedule or edit of
\* that item; an item that appears is WAITING and comes from a creating
\* command.
C17_Step ==
    /\ \A i \in DOMAIN db \cap DOMAIN db' :
          db'[i].status # db[i].status =>
              \/ /\ db[i].status = "WAITING"
                 /\ db'[i].status \in {"REMINDED", "FAILED"}
                 /\ last'.op \in {"resolve", "send"}
                 /\ last'.idx = i
              \/ /\ db'[i].status = "WAITING"
                 /\ last'.op \in {"reschedule", "edit"}
                 /\ last'.result = "confirmed"
                 /\ last'.idx = i
    /\ \A i \in DOMAIN db' \ DOMAIN db :
          /\ db'[i].status = "WAITING"
          /\ last'.result = "created"
          /\ last'.idx = i

\* C17: every change of a status is WAITING to REMINDED or FAILED by
\* _remind, or a change to WAITING by a confirmed reschedule or edit; a new
\* item is stored WAITING; no step moves an item between REMINDED and FAILED.
C17_StatusLifecycle == [][C17_Step]_vars

\* C17: a confirmed reschedule or edit has taken a terminal item back to
\* WAITING.
C17_Witness ==
    /\ last.op \in {"reschedule", "edit"}
    /\ last.result = "confirmed"
    /\ last.pre \in {"REMINDED", "FAILED"}
    /\ last.idx \in DOMAIN db
    /\ db[last.idx].status = "WAITING"

\* C18: the purge of a user's old terminal items ends by returning the number
\* of records it removed (which reminder_clean reports to the user).
C18_CleanReturnsCount ==
    last.op = "clean" => last.result = "count"

\* C19: for every input message, a message longer than the cap is cut to
\* exactly the cap and, if the cut text holds an odd number of delimiters, its
\* last 3 characters are the delimiter and the resulting count of delimiters
\* is even; a message at or below the cap is returned unchanged.
C19_TruncationClosesFence ==
    (last.op = "processed" /\ last.text # NoText) =>
        IF Len(last.text) > TextCap
        THEN /\ Len(last.result) = TextCap
             /\ Count(SubSeq(last.text, 1, TextCap)) % 2 = 1 =>
                   /\ SubSeq(last.result, TextCap - 2, TextCap) = Fence
                   /\ Count(last.result) % 2 = 0
             /\ Count(SubSeq(last.text, 1, TextCap)) % 2 = 0 =>
                   last.result = SubSeq(last.text, 1, TextCap)
        ELSE last.result = last.text

\* The stored row i passes every filter that f supplies.
C20_Satisfies(f, i) ==
    /\ f.guild = None \/ db[i].guild_id = f.guild
    /\ f.idx = None \/ i = f.idx
    /\ f.recipient = None \/ db[i].recipient_id = f.recipient
    /\ f.status = AnyStatus \/ db[i].status = f.status
    /\ f.minOrigin = None \/ db[i].origin_date > f.minOrigin
    /\ f.maxOrigin = None \/ db[i].origin_date < f.maxOrigin
    /\ f.minRemind = None \/ db[i].remind_date > f.minRemind
    /\ f.maxRemind = None \/ db[i].remind_date < f.maxRemind

\* C20: a query returns exactly the stored records that satisfy every
\* supplied filter (scope, id, recipient, status, origin date after and
\* before, due date after and before), each once, ordered by due date
\* descending; an omitted filter constrains nothing.
C20_QueryReturnsMatching ==
    last.op = "query" =>
        /\ \A k \in 1..Len(last.result) :
              /\ last.result[k] \in DOMAIN db
              /\ C20_Satisfies(last.filters, last.result[k])
        /\ \A i \in DOMAIN db :
              C20_Satisfies(last.filters, i) =>
                  Cardinality({k \in 1..Len(last.result) : last.result[k] = i}) = 1
        /\ \A j, k \in 1..Len(last.result) :
              j < k => db[last.result[j]].remind_date >= db[last.result[k]].remind_date

\* C20: a query with the scope, the status and a due-date bound supplied that
\* returns one stored record and leaves out another one, whose status differs.
C20_Witness ==
    /\ last.op = "query"
    /\ last.filters.guild # None
    /\ last.filters.status # AnyStatus
    /\ last.filters.maxRemind # None
    /\ Len(last.result) = 1
    /\ \E i \in DOMAIN db :
          /\ i # last.result[1]
          /\ db[i].guild_id = last.filters.guild
          /\ db[i].status # last.filters.status

\* What a step may do to the ids of the stored records: only a create adds
\* an id, the id the autoincrement hands out, unused so far, next to the old
\* records, which stay as they are; only a confirmed delete removes an id;
\* every other step (attempt, reschedule, edit) leaves the ids alone.
C21_Step ==
    /\ \A i \in DOMAIN db : i < nextIdx
    /\ nextIdx' # nextIdx =>
          /\ nextIdx' > nextIdx
          /\ nextIdx \notin DOMAIN db
          /\ DOMAIN db' = DOMAIN db \cup {nextIdx}
          /\ \A i \in DOMAIN db : db'[i] = db[i]
          /\ last'.result = "created"
          /\ last'.idx = nextIdx
    /\ nextIdx' = nextIdx =>
          \/ DOMAIN db' = DOMAIN db
          \/ /\ last'.op = "delete"
             /\ last'.result = "confirmed"
             /\ DOMAIN db' = DOMAIN db \ {last'.idx}

\* C21: the stored records have pairwise distinct ids and no operation
\* (attempt, reschedule, edit) changes a record's id; two creates for the same
\* author and recipient both persist as separate records with distinct ids.
C21_IdsUniqueAndFixed == [][C21_Step]_vars

\* C21: the second of two creates for the same author and recipient has just
\* been stored, and both records are there.
C21_Witness ==
    /\ last.result = "created"
    /\ \E i, j \in DOMAIN db :
          /\ i # j
          /\ j = last.idx
          /\ db[i].author_id = db[j].author_id
          /\ db[i].recipient_id = db[j].recipient_id
          /\ db[i].guild_id = db[j].guild_id

\* A step that stores a new record gives it the time of the insert as its
\* origin_date and a remind_date strictly after it.
C22_Step ==
    nextIdx' # nextIdx =>
        /\ db'[nextIdx].origin_date = now
        /\ db'[nextIdx].remind_date > db'[nextIdx].origin_date

\* C22: every record that insert persists has origin_timestamp equal to the
\* server's time at insert, and due_timestamp strictly greater than that
\* origin_timestamp.
C22_DueAfterOrigin == [][C22_Step]_vars

\* A step that persists a reschedule or an edit stores a due time that is
\* after the time of that step.
C23_Step ==
    \A i \in Ids :
        (resched'[i] # resched[i] /\ i \in DOMAIN db') =>
            db'[i].remind_date > now'

\* C23: a reschedule or edit never stores a due_timestamp that is not in the
\* future at the moment the update is persisted, also when the confirmation
\* completes later than the moment the new due time was validated.
C23_StoredDueInFuture == [][C23_Step]_vars

\* A tick starts only when no tick is running and gets its list ordered by due
\* date descending; every step of _remind works on the first item of the list
\* the tick still holds, and the list loses that item (or, when the tick is
\* given up, everything) only when _remind is over; a delivery call is in
\* flight only inside the running tick, for that first item.
C24_Step ==
    /\ phase # "idle" => (loopState = "running" /\ items # <<>>)
    /\ last'.op = "tick" =>
          /\ loopState # "running"
          /\ phase = "idle"
          /\ items = <<>>
          /\ \A j, k \in 1..Len(items') :
                j < k => /\ items'[j] # items'[k]
                         /\ db[items'[j]].remind_date >= db[items'[k]].remind_date
    /\ last'.op = "resolve" =>
          /\ phase = "resolve"
          /\ last'.idx = Head(items)
          /\ \/ phase' = "send" /\ items' = items
             \/ phase' # "send" /\ items' \in {Tail(items), <<>>}
    /\ last'.op = "send" =>
          /\ phase = "send"
          /\ last'.idx = Head(items)
          /\ phase' # "send"
          /\ items' \in {Tail(items), <<>>}

\* C24: the attempts of one tick run one after another in the order the store
\* returned them (due date descending), ticks never overlap, and at most one
\* delivery attempt is in flight at any moment.
C24_AttemptsInOrder == [][C24_Step]_vars

\* C24: a tick has delivered the item due later and is now delivering the one
\* due earlier.
C24_Witness ==
    /\ last.op = "resolve"
    /\ last.result = "user"
    /\ phase = "send"
    /\ \E i \in DOMAIN db :
          /\ last.idx \in DOMAIN db
          /\ db[i].remind_date > db[last.idx].remind_date
          /\ db[i].status = "REMINDED"
          /\ db[last.idx].status = "WAITING"
          /\ calls[i] = 1
          /\ calls[last.idx] = 1
          /\ db[i].origin_date < TickStart
          /\ db[last.idx].origin_date < TickStart

\* A step in which a confirmation dialog is declined or times out changes no
\* stored record and removes none.
C25_Step ==
    last'.result \in {"aborted", "timeout"} =>
        /\ last'.op \in {"reschedule", "edit", "delete"}
        /\ db' = db

\* C25: a reschedule, edit or delete request whose confirmation times out or
\* is declined leaves the store unchanged: the item keeps its due time,
\* message and status and is not removed.
C25_DeclinedChangesNothing == [][C25_Step]_vars

\* C25: the dialog of a reschedule of a delivered item has timed out, and the
\* item is still REMINDED.
C25_Witness ==
    /\ last.op = "reschedule"
    /\ last.result = "timeout"
    /\ last.idx \in DOMAIN db
    /\ db[last.idx].status = "REMINDED"
    /\ pending = {}

\* C26: no delivery call is made for an item at a tick starting at n unless
\* the item's due time, as stored when the delivery call starts, is at most
\* n + 30 s: an item rescheduled to a later time after the tick selected it is
\* not delivered by that tick.
C26_DeliveredOnlyWithinHorizon ==
    (last.op = "resolve" /\ last.result = "user" /\ last.idx \in DOMAIN db)
        => db[last.idx].remind_date <= TickStart + HorizonSeconds

\* A step of _remind stores and removes no record, leaves every record other
\* than its item as it is, and changes nothing but the status of its item.
C27_Step ==
    last'.op \in {"resolve", "send"} =>
        /\ DOMAIN db' = DOMAIN db
        /\ nextIdx' = nextIdx
        /\ \A i \in DOMAIN db :
              IF i = last'.idx
              THEN [db'[i] EXCEPT !.status = db[i].status] = db[i]
              ELSE db'[i] = db[i]

\* C27: a delivery attempt for an item changes only that item's status: its
\* id, scope, author, recipient, origin_timestamp, due_timestamp, message and
\* reference link are unchanged, and no other stored item is modified,
\* created or removed by the attempt.
C27_AttemptChangesOnlyStatus == [][C27_Step]_vars

\* C27: an item has just been delivered and marked REMINDED while another
\* stored item is still WAITING.
C27_Witness ==
    /\ last.op = "send"
    /\ last.result = "ok"
    /\ last.idx \in DOMAIN db
    /\ db[last.idx].status = "REMINDED"
    /\ \E j \in DOMAIN db : j # last.idx /\ db[j].status = "WAITING"

\* C28: at most one countdown record exists for each pair (author, name), and
\* a countdown set that was rejected as existing names a pair that is stored.
C28_OnePerAuthorAndName ==
    /\ \A i, j \in DOMAIN db :
          (db[i].author_id = db[j].author_id /\ db[i].name = db[j].name)
              => i = j
    /\ (last.op = "countdown_set" /\ last.result = "exists") =>
          /\ last.idx \in DOMAIN db
          /\ db[last.idx].author_id = last.user
          /\ db[last.idx].name = last.pre
    /\ (last.op = "countdown_set" /\ last.result = "created") =>
          {i \in DOMAIN db : db[i].author_id = last.user
                                /\ db[i].name = last.pre} = {last.idx}

\* C28: a countdown set has just been rejected because its author already has
\* a countdown of that name, while another author holds one of the same name.
C28_Witness ==
    /\ last.op = "countdown_set"
    /\ last.result = "exists"
    /\ \E j \in DOMAIN db :
          /\ db[j].author_id # last.user
          /\ db[j].name = last.pre

====
